---- MODULE Spec2Model ----
(***************************************************************************)
(* Model of mcp-pdf-modesty (src/src/index.ts): the path safety predicate, *)
(* the file validator, the parse wrapper with its 30 second timer, the     *)
(* result shaping and the tool dispatcher.                                 *)
(*                                                                         *)
(* Strings the code inspects character by character (paths, text runs,     *)
(* file contents) are sequences of character codes; "/etc" is              *)
(* <<47, 101, 116, 99>>.  Messages are records [text, arg]: the literal    *)
(* part of the template string and the interpolated value.                 *)
(* Path functions are those of node's path module on POSIX.                *)
(***************************************************************************)
EXTENDS Integers, Sequences, FiniteSets, TLC

VARIABLES
  cwd,        \* process.cwd(), used by resolve()
  file,       \* what the file system holds at the resolved path
  name,       \* request.params.name
  args,       \* request.params.arguments: optional [path, format], both optional
  pc,         \* position of the CallTool handler
  vpc,        \* position of validatePDFFile
  vres,       \* settled state of validatePDFFile's promise
  pendingErr, \* error thrown inside the try block, kept across finally
  handle,     \* the fileHandle of validatePDFFile
  fsLog,      \* file system calls made so far, in order
  outcome,    \* state of the promise returned by parsePDF
  timer,      \* the setTimeout of parsePDF
  signals,    \* number of events the parsing engine has emitted
  envs        \* envelopes returned by the CallTool handler

vars == <<cwd, file, name, args, pc, vpc, vres, pendingErr, handle, fsLog,
          outcome, timer, signals, envs>>

-----------------------------------------------------------------------------
(* Bounds *)

\* longest path given to isPathSafe, in segments
MaxSegs == 3
\* longest path given to validatePDFFile when the file varies, in segments
MaxFileSegs == 1
\* most pages, text items and text runs, taken together, of a generated document
MaxTextParts == 7
\* most pages and form fields, taken together, of a generated document
MaxFieldParts == 4
\* file sizes are taken within this distance of MAX_FILE_SIZE
SizeSlack == 1
\* events one parsing engine run may emit
MaxSignals == 2

-----------------------------------------------------------------------------
(* Strings *)

Max(a, b) == IF a > b THEN a ELSE b
Min(a, b) == IF a < b THEN a ELSE b

\* String.prototype.includes
Includes(s, sub) ==
  \E i \in 1..(Len(s) - Len(sub) + 1) : SubSeq(s, i, i + Len(sub) - 1) = sub

\* String.prototype.startsWith
StartsWith(s, prefix) ==
  Len(prefix) <= Len(s) /\ SubSeq(s, 1, Len(prefix)) = prefix

\* String.prototype.toLowerCase (ASCII letters)
ToLowerCase(s) ==
  [i \in 1..Len(s) |-> IF s[i] \in 65..90 THEN s[i] + 32 ELSE s[i]]

\* String.prototype.lastIndexOf for a single character; 0-based, -1 if absent
LastIndexOf(s, c) ==
  LET hits == {i \in 1..Len(s) : s[i] = c}
  IN  IF hits = {} THEN -1
      ELSE (CHOOSE i \in hits : \A j \in hits : j <= i) - 1

\* String.prototype.substring(start): a negative start counts as 0
Substring(s, start) == SubSeq(s, Min(Max(start, 0), Len(s)) + 1, Len(s))

RECURSIVE Split(_)
\* the segments of a path between "/" separators
Split(s) ==
  LET cut == {i \in 1..Len(s) : s[i] = 47}
  IN  IF cut = {} THEN <<s>>
      ELSE LET i == CHOOSE k \in cut : \A j \in cut : k <= j
           IN  <<SubSeq(s, 1, i - 1)>> \o Split(SubSeq(s, i + 1, Len(s)))

RECURSIVE Join(_)
\* segments joined by "/"
Join(segs) ==
  IF segs = <<>> THEN <<>>
  ELSE IF Len(segs) = 1 THEN segs[1]
  ELSE segs[1] \o <<47>> \o Join(Tail(segs))

-----------------------------------------------------------------------------
(* node:path (POSIX) *)

RECURSIVE NormSegs(_, _, _)
\* normalizeString: drops "" and "." segments; ".." removes the segment
\* before it, or is kept when there is none and allowAboveRoot
NormSegs(segs, acc, allowAboveRoot) ==
  IF segs = <<>> THEN acc
  ELSE LET s == Head(segs)
           rest == Tail(segs)
       IN  IF s = <<>> \/ s = <<46>> THEN NormSegs(rest, acc, allowAboveRoot)
           ELSE IF s = <<46, 46>>
             THEN IF acc # <<>> /\ acc[Len(acc)] # <<46, 46>>
                    THEN NormSegs(rest, SubSeq(acc, 1, Len(acc) - 1), allowAboveRoot)
                    ELSE IF allowAboveRoot
                      THEN NormSegs(rest, Append(acc, <<46, 46>>), allowAboveRoot)
                      ELSE NormSegs(rest, acc, allowAboveRoot)
             ELSE NormSegs(rest, Append(acc, s), allowAboveRoot)

normalizeString(path, allowAboveRoot) ==
  Join(NormSegs(Split(path), <<>>, allowAboveRoot))

\* path.normalize
normalize(path) ==
  IF Len(path) = 0 THEN <<46>>
  ELSE LET isAbsolute == path[1] = 47
           trailingSeparator == path[Len(path)] = 47
           p == normalizeString(path, ~isAbsolute)
       IN  IF Len(p) = 0
             THEN IF isAbsolute THEN <<47>>
                  ELSE IF trailingSeparator THEN <<46, 47>> ELSE <<46>>
             ELSE (IF isAbsolute THEN <<47>> ELSE <<>>) \o p
                  \o (IF trailingSeparator THEN <<47>> ELSE <<>>)

\* mutant: a relative path is resolved against the root directory
resolveIn_IgnoreCwd(dir, path) ==
  <<47>> \o normalizeString(path \o <<47>>, FALSE)

\* path.resolve(path) in a process whose working directory is dir
resolveIn(dir, path) ==
  LET full == IF Len(path) = 0 THEN dir \o <<47>>
              ELSE IF path[1] = 47 THEN path \o <<47>>
              ELSE dir \o <<47>> \o path \o <<47>>
  IN  <<47>> \o normalizeString(full, FALSE)

-----------------------------------------------------------------------------
(* Security constants and isPathSafe *)

MAX_FILE_SIZE == 50 * 1024 * 1024
\* ".pdf"
ALLOWED_EXTENSIONS == {<<46, 112, 100, 102>>}
\* "%PDF"
PDF_MAGIC_BYTES == <<37, 80, 68, 70>>

\* "/etc", "/usr", "/bin", "/sbin", "/dev", "/proc", "/sys",
\* "C:\Windows", "C:\Program Files"
dangerousPaths ==
  << <<47, 101, 116, 99>>, <<47, 117, 115, 114>>, <<47, 98, 105, 110>>,
     <<47, 115, 98, 105, 110>>, <<47, 100, 101, 118>>,
     <<47, 112, 114, 111, 99>>, <<47, 115, 121, 115>>,
     <<67, 58, 92, 87, 105, 110, 100, 111, 119, 115>>,
     <<67, 58, 92, 80, 114, 111, 103, 114, 97, 109, 32, 70, 105, 108, 101, 115>> >>

\* mutant: the resolved path is compared without folding its case
LowerPath_CaseSensitive(resolvedPath) == resolvedPath

\* the path as the deny-list loop sees it
LowerPath(resolvedPath) == ToLowerCase(resolvedPath)

\* the textual traversal test on the normalized path
HasTraversal(normalizedPath) ==
  Includes(normalizedPath, <<46, 46>>) \/ Includes(normalizedPath, <<126>>)

\* mutant: the traversal test reads the resolved path
isPathSafeIn_ResolvedTraversal(dir, filePath) ==
  LET normalizedPath == normalize(filePath)
      resolvedPath == resolveIn(dir, normalizedPath)
      lowerPath == LowerPath(resolvedPath)
  IN  IF HasTraversal(resolvedPath) THEN FALSE
      ELSE \A i \in 1..Len(dangerousPaths) :
             ~StartsWith(lowerPath, ToLowerCase(dangerousPaths[i]))

isPathSafeIn(dir, filePath) ==
  LET normalizedPath == normalize(filePath)
      resolvedPath == resolveIn(dir, normalizedPath)
      lowerPath == LowerPath(resolvedPath)
  IN  IF HasTraversal(normalizedPath) THEN FALSE
      ELSE \A i \in 1..Len(dangerousPaths) :
             ~StartsWith(lowerPath, ToLowerCase(dangerousPaths[i]))

isPathSafe(filePath) == isPathSafeIn(cwd, filePath)

-----------------------------------------------------------------------------
(* Inputs: working directories, paths, files *)

\* "/home/u", "/usr/src/app", "/"
Cwds == { <<47, 104, 111, 109, 101, 47, 117>>,
          <<47, 117, 115, 114, 47, 115, 114, 99, 47, 97, 112, 112>>,
          <<47>> }

\* "..", ".", "~", "etc", "ETC", "docs", "a.pdf", "A.PDF", "a.txt", "a..pdf"
Segments ==
  { <<46, 46>>, <<46>>, <<126>>, <<101, 116, 99>>, <<69, 84, 67>>,
    <<100, 111, 99, 115>>, <<97, 46, 112, 100, 102>>, <<65, 46, 80, 68, 70>>,
    <<97, 46, 116, 120, 116>>, <<97, 46, 46, 112, 100, 102>> }

\* every relative and absolute path of at most n segments
PathsUpTo(n) ==
  UNION { { (IF abs THEN <<47>> ELSE <<>>) \o Join(segs) :
              segs \in [1..k -> Segments], abs \in BOOLEAN } : k \in 0..n }

ValidatePaths == PathsUpTo(MaxFileSegs)
SafetyPaths == PathsUpTo(MaxSegs)

\* "a.pdf", "A.PDF", "docs/a.pdf", "/etc/a.pdf", "../a.pdf", "a.txt"
DispatchPaths ==
  { <<97, 46, 112, 100, 102>>, <<65, 46, 80, 68, 70>>,
    <<100, 111, 99, 115, 47, 97, 46, 112, 100, 102>>,
    <<47, 101, 116, 99, 47, 97, 46, 112, 100, 102>>,
    <<46, 46, 47, 97, 46, 112, 100, 102>>, <<97, 46, 116, 120, 116>> }

Sizes == {0, 3} \cup {MAX_FILE_SIZE + d : d \in (0 - SizeSlack)..SizeSlack}

\* the first bytes of a file: "%PDF" or four zero bytes
Contents == { <<37, 80, 68, 70>>, <<0, 0, 0, 0>> }

NoFile == [exists |-> FALSE, isFile |-> FALSE, size |-> 0, content |-> <<>>, io |-> "ok"]

\* a missing entry, a directory, or a regular file with its first bytes;
\* io says whether opening and reading the file will work
Files ==
  {NoFile}
  \cup { [exists |-> TRUE, isFile |-> FALSE, size |-> s, content |-> <<>>, io |-> "ok"] :
           s \in Sizes }
  \cup { [exists |-> TRUE, isFile |-> TRUE, size |-> s,
          content |-> SubSeq(c, 1, Min(4, s)), io |-> i] :
           s \in Sizes, c \in Contents, i \in {"ok", "openFails", "readFails"} }

\* the working directory and its ancestors exist and are directories
Consistent(dir, path, f) ==
  LET target == NormSegs(Split(resolveIn(dir, path)), <<>>, FALSE)
      here == NormSegs(Split(dir), <<>>, FALSE)
  IN  (Len(target) <= Len(here) /\ SubSeq(here, 1, Len(target)) = target)
        => (f.exists /\ ~f.isFile)

-----------------------------------------------------------------------------
(* validatePDFFile *)

Msg(text, arg) == [text |-> text, arg |-> arg]

Pending == [status |-> "pending", error |-> <<>>]
Fulfilled == [status |-> "fulfilled", error |-> <<>>]
Rejected(e) == [status |-> "rejected", error |-> <<e>>]

\* the path argument, when one was given
FilePath == args[1].path[1]

PathTypeError ==
  Msg("The \"path\" argument must be of type string. Received undefined", <<>>)
UnsafePathError == Msg("Invalid file path: potential security risk detected", <<>>)
NotFoundError(filePath) == Msg("File not found: ", filePath)
InvalidTypeError(ext) == Msg("Invalid file type. Only PDF files are allowed. Got: ", ext)
TooLargeError ==
  Msg("File too large. Maximum size is "
        \o ToString((MAX_FILE_SIZE \div 1024) \div 1024) \o "MB", <<>>)
NotAFileError == Msg("Path must point to a file, not a directory", <<>>)
MissingSignatureError == Msg("Invalid PDF file: missing PDF signature", <<>>)
\* errors of fs.open and fileHandle.read themselves
OpenFailedError(filePath) == Msg("EACCES: permission denied, open ", resolveIn(cwd, filePath))
ReadFailedError == Msg("EIO: i/o error, read", <<>>)

\* filePath.toLowerCase().substring(filePath.lastIndexOf("."))
Extension(filePath) == Substring(ToLowerCase(filePath), LastIndexOf(filePath, 46))

\* Buffer.alloc(4) after fileHandle.read(buffer, 0, 4, 0)
ReadBuffer(f) == f.content \o [i \in 1..(4 - Len(f.content)) |-> 0]

\* mutant: a file of exactly the maximum size is rejected
TooLarge_Inclusive(size) == size >= MAX_FILE_SIZE

\* the size test of validatePDFFile
TooLarge(size) == size > MAX_FILE_SIZE

\* the extension test: the error thrown, or <<>>
ExtensionCheck(filePath) ==
  IF ~(Extension(filePath) \in ALLOWED_EXTENSIONS)
    THEN <<InvalidTypeError(Extension(filePath))>>
    ELSE <<>>

\* mutant: the isFile test comes before the size test
StatChecks_FileFirst(stats) ==
  IF ~stats.isFile THEN <<NotAFileError>>
  ELSE IF TooLarge(stats.size) THEN <<TooLargeError>>
  ELSE <<>>

\* the tests on the result of statSync, in the order of the code: the error
\* thrown, or <<>> when both pass
StatChecks(stats) ==
  IF TooLarge(stats.size) THEN <<TooLargeError>>
  ELSE IF ~stats.isFile THEN <<NotAFileError>>
  ELSE <<>>

\* mutant: a wrong signature is not reported
SignatureCheck_Skipped(buffer) == <<>>

\* the comparison of the bytes read with PDF_MAGIC_BYTES: the error thrown,
\* or <<>>
SignatureCheck(buffer) ==
  IF buffer # PDF_MAGIC_BYTES THEN <<MissingSignatureError>> ELSE <<>>

\* mutant: close is called after the signature check and not in finally,
\* so a pending error skips it
CloseHandle_OnlyOnSuccess(h, err) == IF err # <<>> THEN h ELSE "closed"

\* finally { await fileHandle.close() }: the handle is closed whether or not
\* the try block left an error pending
CloseHandle(h, err) == "closed"

\* isPathSafe, then fs.access is called; normalize throws a TypeError on
\* a path that is not a string
ValidateStart ==
  /\ vpc = "start"
  /\ IF args[1].path = <<>>
       THEN /\ vres' = Rejected(PathTypeError)
            /\ vpc' = "done"
            /\ fsLog' = fsLog
       ELSE IF ~isPathSafe(FilePath)
       THEN /\ vres' = Rejected(UnsafePathError)
            /\ vpc' = "done"
            /\ fsLog' = fsLog
       ELSE /\ vres' = vres
            /\ vpc' = "access"
            /\ fsLog' = Append(fsLog, "access")
  /\ UNCHANGED <<cwd, file, name, args, pc, pendingErr, handle, outcome, timer,
                 signals, envs>>

\* fs.access settled: existence, extension, statSync, size, isFile, then fs.open
ValidateAfterAccess ==
  /\ vpc = "access"
  /\ IF ~file.exists
       THEN /\ vres' = Rejected(NotFoundError(FilePath))
            /\ vpc' = "done"
            /\ fsLog' = fsLog
       ELSE IF ExtensionCheck(FilePath) # <<>>
         THEN /\ vres' = Rejected(ExtensionCheck(FilePath)[1])
              /\ vpc' = "done"
              /\ fsLog' = fsLog
         ELSE IF StatChecks(file) # <<>>
           THEN /\ vres' = Rejected(StatChecks(file)[1])
                /\ vpc' = "done"
                /\ fsLog' = Append(fsLog, "statSync")
           ELSE /\ vres' = vres
                /\ vpc' = "open"
                /\ fsLog' = fsLog \o <<"statSync", "open">>
  /\ UNCHANGED <<cwd, file, name, args, pc, pendingErr, handle, outcome, timer,
                 signals, envs>>

\* fs.open settled: on success the handle is open and read is called
ValidateAfterOpen ==
  /\ vpc = "open"
  /\ IF file.io = "openFails"
       THEN /\ vres' = Rejected(OpenFailedError(FilePath))
            /\ vpc' = "done"
            /\ UNCHANGED <<handle, fsLog>>
       ELSE /\ handle' = "open"
            /\ fsLog' = Append(fsLog, "read")
            /\ vpc' = "read"
            /\ vres' = vres
  /\ UNCHANGED <<cwd, file, name, args, pc, pendingErr, outcome, timer, signals, envs>>

\* fileHandle.read settled: the signature comparison inside try, then the
\* finally block calls fileHandle.close
ValidateAfterRead ==
  /\ vpc = "read"
  /\ pendingErr' =
       IF file.io = "readFails" THEN <<ReadFailedError>>
       ELSE SignatureCheck(ReadBuffer(file))
  /\ fsLog' = Append(fsLog, "close")
  /\ vpc' = "close"
  /\ UNCHANGED <<cwd, file, name, args, pc, vres, handle, outcome, timer, signals, envs>>

\* fileHandle.close settled: the pending error is rethrown, or the function returns
ValidateAfterClose ==
  /\ vpc = "close"
  /\ handle' = CloseHandle(handle, pendingErr)
  /\ vres' = IF pendingErr # <<>> THEN Rejected(pendingErr[1]) ELSE Fulfilled
  /\ vpc' = "done"
  /\ UNCHANGED <<cwd, file, name, args, pc, pendingErr, fsLog, outcome, timer,
                 signals, envs>>

Validate ==
  \/ ValidateStart
  \/ ValidateAfterAccess
  \/ ValidateAfterOpen
  \/ ValidateAfterRead
  \/ ValidateAfterClose

\* validatePDFFile called directly on a path, as the security tests do
InitValidate ==
  /\ cwd \in Cwds
  /\ file \in Files
  /\ name = "validatePDFFile"
  /\ args \in {<<[path |-> <<p>>, format |-> <<>>]>> : p \in ValidatePaths}
  /\ Consistent(cwd, FilePath, file)
  /\ pc = "direct"
  /\ vpc = "start"
  /\ vres = Pending
  /\ pendingErr = <<>>
  /\ handle = "none"
  /\ fsLog = <<>>
  /\ outcome = [state |-> "none", doc |-> <<>>, error |-> <<>>]
  /\ timer = "none"
  /\ signals = 0
  /\ envs = <<>>

NextValidate == Validate

SpecValidate == InitValidate /\ [][NextValidate]_vars

\* a well-formed PDF file of 3 bytes more than its signature, and a directory
PathFiles ==
  { [exists |-> TRUE, isFile |-> TRUE, size |-> 7, content |-> PDF_MAGIC_BYTES, io |-> "ok"],
    [exists |-> TRUE, isFile |-> FALSE, size |-> 0, content |-> <<>>, io |-> "ok"] }

\* validatePDFFile called on every generated path, the file being a PDF
\* file wherever the path does not name the working directory or above
InitPath ==
  /\ cwd \in Cwds
  /\ args \in {<<[path |-> <<p>>, format |-> <<>>]>> : p \in SafetyPaths}
  /\ file \in PathFiles
  /\ file.isFile <=> Consistent(cwd, FilePath, [exists |-> TRUE, isFile |-> TRUE])
  /\ name = "validatePDFFile"
  /\ pc = "direct"
  /\ vpc = "start"
  /\ vres = Pending
  /\ pendingErr = <<>>
  /\ handle = "none"
  /\ fsLog = <<>>
  /\ outcome = [state |-> "none", doc |-> <<>>, error |-> <<>>]
  /\ timer = "none"
  /\ signals = 0
  /\ envs = <<>>

NextPath == Validate

SpecPath == InitPath /\ [][NextPath]_vars

-----------------------------------------------------------------------------
(* Claims about validatePDFFile, under SpecValidate, and about isPathSafe,  *)
(* under SpecPath                                                          *)

ValidateDone == vpc = "done"

ExtensionOk(filePath) == Extension(filePath) \in ALLOWED_EXTENSIONS

\* the outcome when the six checks are applied in the given order
\* (2 = existence, 3 = extension, 4 = regular file, 5 = size, 6 = signature),
\* for a file that can be opened and read
FirstFailure(order) ==
  LET fails(k) ==
        CASE k = 1 -> ~isPathSafe(FilePath)
          [] k = 2 -> ~file.exists
          [] k = 3 -> ~ExtensionOk(FilePath)
          [] k = 4 -> ~file.isFile
          [] k = 5 -> file.size > 50 * 1024 * 1024
          [] k = 6 -> ReadBuffer(file) # <<37, 80, 68, 70>>
      error(k) ==
        CASE k = 1 -> UnsafePathError
          [] k = 2 -> NotFoundError(FilePath)
          [] k = 3 -> InvalidTypeError(Extension(FilePath))
          [] k = 4 -> NotAFileError
          [] k = 5 -> TooLargeError
          [] k = 6 -> MissingSignatureError
      failing == {i \in 1..Len(order) : fails(order[i])}
  IN  IF failing = {} THEN Fulfilled
      ELSE Rejected(error(order[CHOOSE i \in failing : \A j \in failing : i <= j]))

\* C2 as stated: the checks run in the order safety, existence, extension,
\* regular file, size, signature, and the first failing one is reported
C2_ClaimedOrder ==
  (ValidateDone /\ file.io = "ok") => vres = FirstFailure(<<1, 2, 3, 4, 5, 6>>)

\* C2 amended: the checks run in the order safety, existence, extension,
\* size, regular file, signature, and the failure reported is that of the
\* first check in this order that the input fails; a directory whose
\* reported size exceeds the limit fails with "too large"
C2_FirstFailureWins ==
  (ValidateDone /\ file.io = "ok") => vres = FirstFailure(<<1, 2, 3, 5, 4, 6>>)

\* a directory larger than the limit was validated
C2_Witness ==
  /\ ValidateDone
  /\ file.exists /\ ~file.isFile /\ file.size > MAX_FILE_SIZE
  /\ vres = Rejected(TooLargeError)

\* the file holds four zero bytes and passes safety, existence, regular
\* file and size
ZeroHeadFile ==
  /\ file.exists /\ file.isFile /\ file.content = <<0, 0, 0, 0>>
  /\ file.size <= MAX_FILE_SIZE
  /\ isPathSafe(FilePath)

\* C7 as stated: such a file fails with "missing signature" whatever the
\* extension of the path
C7_AnyExtension ==
  (ValidateDone /\ ZeroHeadFile /\ file.io = "ok")
    => vres = Rejected(MissingSignatureError)

\* C7 amended: a file whose first four bytes are 00 00 00 00 fails with
\* "missing signature" when the extension of the path is .pdf in any letter
\* case (the path safe, the file existing, regular, within the size limit
\* and readable); with another extension it fails with "invalid type"
C7_ZeroHeadRejected ==
  (ValidateDone /\ ZeroHeadFile /\ file.io = "ok")
    => vres = IF ExtensionOk(FilePath)
                THEN Rejected(MissingSignatureError)
                ELSE Rejected(InvalidTypeError(Extension(FilePath)))

C7_Witness ==
  /\ ValidateDone /\ ZeroHeadFile /\ file.io = "ok"
  /\ FilePath = <<65, 46, 80, 68, 70>>
  /\ vres = Rejected(MissingSignatureError)
  /\ handle = "closed"

\* C8: past safety, existence and extension, the "too large" failure (its
\* message naming 50MB) is reported exactly when size > 52428800
C8_TooLargeExactly ==
  (ValidateDone /\ isPathSafe(FilePath) /\ file.exists /\ ExtensionOk(FilePath))
    => /\ (vres.status = "rejected"
            /\ vres.error[1].text = "File too large. Maximum size is 50MB")
          <=> file.size > 52428800
       /\ file.size = 52428800 => vres # Rejected(TooLargeError)
       /\ file.size = 52428801 => vres = Rejected(TooLargeError)

C8_Witness ==
  /\ ValidateDone
  /\ file.size = 52428801
  /\ vres = Rejected(TooLargeError)
  /\ fsLog = <<"access", "statSync">>

\* the normalized path contains ".." or "~" somewhere in its text
NormalizedHasDotDotOrTilde(filePath) ==
  LET n == normalize(filePath)
  IN  \/ \E i \in 1..(Len(n) - 1) : n[i] = 46 /\ n[i + 1] = 46
      \/ \E i \in 1..Len(n) : n[i] = 126

\* C9: a path whose normalized form contains ".." or "~" is unsafe, and
\* validatePDFFile rejects it before any file system call
C9_TraversalRejected ==
  NormalizedHasDotDotOrTilde(FilePath)
    => /\ ~isPathSafe(FilePath)
       /\ vpc # "start" => (ValidateDone /\ vres = Rejected(UnsafePathError))
       /\ fsLog = <<>>

\* "docs/../a..pdf", which normalizes to "a..pdf", was rejected
C9_Witness ==
  /\ ValidateDone
  /\ FilePath = <<100, 111, 99, 115, 47, 46, 46, 47, 97, 46, 46, 112, 100, 102>>
  /\ file.exists
  /\ vres = Rejected(UnsafePathError)

\* validatePDFFile got a handle from fs.open
Opened == handle # "none"

\* C15: once validatePDFFile has opened the file, it does not complete,
\* normally or with a failure, before the handle is closed, whether the
\* signature matches, does not match, or the read fails; close is the last
\* file system call it makes
C15_HandleClosedOnReturn ==
  (ValidateDone /\ Opened)
    => /\ handle = "closed"
       /\ fsLog[Len(fsLog)] = "close"
       /\ vres.status \in {"fulfilled", "rejected"}

\* the read failed and validatePDFFile completed with that failure
C15_Witness ==
  /\ ValidateDone
  /\ file.io = "readFails"
  /\ vres = Rejected(ReadFailedError)
  /\ handle = "closed"

\* the segments ps begin with the segments qs
SegmentsBegin(ps, qs) ==
  Len(qs) <= Len(ps) /\ \A i \in 1..Len(qs) : ps[i] = qs[i]

\* path lies under one of the deny-listed prefixes, letter case aside
LiesUnderDenied(path) ==
  LET ps == Split(ToLowerCase(path))
  IN  \E i \in 1..Len(dangerousPaths) :
        SegmentsBegin(ps, Split(ToLowerCase(dangerousPaths[i])))

\* C10: a path that resolves under a deny-listed prefix, in any letter
\* case, is unsafe
C10_SystemPathsRejected ==
  LiesUnderDenied(resolveIn(cwd, FilePath))
    => /\ ~isPathSafe(FilePath)
       /\ vpc # "start" => vres = Rejected(UnsafePathError)

\* "/ETC/a.pdf" was checked from /home/u
C10_Witness ==
  /\ ValidateDone
  /\ cwd = <<47, 104, 111, 109, 101, 47, 117>>
  /\ FilePath = <<47, 69, 84, 67, 47, 97, 46, 112, 100, 102>>
  /\ vres = Rejected(UnsafePathError)

\* ".pdf", ".txt"
OrdinaryExtensions == {<<46, 112, 100, 102>>, <<46, 116, 120, 116>>}

\* a relative path with no ".." and no "~" that ends in an ordinary extension
RelativeOrdinary(filePath) ==
  /\ Len(filePath) > 0
  /\ filePath[1] # 47
  /\ ~Includes(filePath, <<46, 46>>)
  /\ ~Includes(filePath, <<126>>)
  /\ Extension(filePath) \in OrdinaryExtensions

\* the name of the first directory on the way from the root to filePath,
\* going through the working directory
TopName(filePath) ==
  SelectSeq(Split(cwd) \o Split(filePath),
            LAMBDA seg : seg # <<>> /\ seg # <<46>>)[1]

\* the name begins, letter case aside, as a deny-listed "/name" prefix does
BeginsDenied(nm) ==
  \E i \in 1..Len(dangerousPaths) :
    /\ dangerousPaths[i][1] = 47
    /\ StartsWith(ToLowerCase(nm), Tail(ToLowerCase(dangerousPaths[i])))

\* C11 as claimed: every relative path with no ".." and no "~" and an
\* ordinary extension is safe
C11_RelativeAlwaysSafe ==
  RelativeOrdinary(FilePath)
    => /\ isPathSafe(FilePath)
       /\ vpc # "start" => vres # Rejected(UnsafePathError)

\* C11: a relative path with no ".." and no "~" and an ordinary extension is
\* resolved against the working directory, and is safe exactly when the first
\* directory name of the resolved path does not begin as a deny-listed prefix
C11_RelativeSafeUnlessDenied ==
  RelativeOrdinary(FilePath)
    => /\ isPathSafe(FilePath) <=> ~BeginsDenied(TopName(FilePath))
       /\ vpc # "start"
            => (vres = Rejected(UnsafePathError) <=> BeginsDenied(TopName(FilePath)))

\* "docs/a.pdf" was found safe from /home/u
C11_Witness ==
  /\ vpc # "start"
  /\ cwd = <<47, 104, 111, 109, 101, 47, 117>>
  /\ FilePath = <<100, 111, 99, 115, 47, 97, 46, 112, 100, 102>>
  /\ isPathSafe(FilePath)
  /\ vres # Rejected(UnsafePathError)

-----------------------------------------------------------------------------
(* Parsed documents and result shaping *)

\* an optional value: <<>> when absent (undefined), <<v>> when present
None == <<>>
Some(v) == <<v>>

\* value of a hexadecimal digit, -1 for any other character
HexVal(c) ==
  IF c \in 48..57 THEN c - 48
  ELSE IF c \in 65..70 THEN c - 55
  ELSE IF c \in 97..102 THEN c - 87
  ELSE -1

\* the octet written %XY at position k of s, -1 if there is none
OctetAt(s, k) ==
  IF k + 2 <= Len(s) /\ s[k] = 37 /\ HexVal(s[k + 1]) >= 0 /\ HexVal(s[k + 2]) >= 0
    THEN 16 * HexVal(s[k + 1]) + HexVal(s[k + 2])
    ELSE -1

\* length of the UTF-8 sequence a lead octet announces, 0 if it is no lead
Utf8Length(b) ==
  IF b < 128 THEN 1
  ELSE IF b \in 192..223 THEN 2
  ELSE IF b \in 224..239 THEN 3
  ELSE IF b \in 240..247 THEN 4
  ELSE 0

\* the code point of n octets starting at position k of s, -1 if they are
\* not a well-formed UTF-8 sequence
CodePointAt(s, k, n) ==
  LET b(i) == OctetAt(s, k + 3 * i)
      cont(i) == b(i) \in 128..191
      low(i) == b(i) % 64
  IN  CASE n = 1 -> b(0)
        [] n = 2 ->
             IF cont(1) /\ (b(0) % 32) * 64 + low(1) >= 128
               THEN (b(0) % 32) * 64 + low(1) ELSE -1
        [] n = 3 ->
             LET cp == (b(0) % 16) * 4096 + low(1) * 64 + low(2)
             IN  IF cont(1) /\ cont(2) /\ cp >= 2048 /\ ~(cp \in 55296..57343)
                   THEN cp ELSE -1
        [] n = 4 ->
             LET cp == (b(0) % 8) * 262144 + low(1) * 4096 + low(2) * 64 + low(3)
             IN  IF cont(1) /\ cont(2) /\ cont(3) /\ cp \in 65536..1114111
                   THEN cp ELSE -1
        [] OTHER -> -1

\* a code point as UTF-16 code units
Utf16(cp) ==
  IF cp < 65536 THEN <<cp>>
  ELSE <<55296 + ((cp - 65536) \div 1024), 56320 + ((cp - 65536) % 1024)>>

URIError == Msg("URI malformed", <<>>)

RECURSIVE Decode(_, _, _)
\* decodeURIComponent from position k on, acc being the text decoded so
\* far: [error, value], error = Some(URIError) when an escape is malformed
Decode(s, k, acc) ==
  IF k > Len(s) THEN [error |-> None, value |-> acc]
  ELSE IF s[k] # 37 THEN Decode(s, k + 1, Append(acc, s[k]))
  ELSE LET n == IF OctetAt(s, k) < 0 THEN 0 ELSE Utf8Length(OctetAt(s, k))
           cp == IF n = 0 THEN -1 ELSE CodePointAt(s, k, n)
       IN  IF cp < 0 THEN [error |-> Some(URIError), value |-> <<>>]
           ELSE Decode(s, k + 3 * n, acc \o Utf16(cp))

decodeURIComponent(s) == Decode(s, 1, <<>>)

\* WhiteSpace and LineTerminator code units, as String.prototype.trim sees them
IsWhiteSpace(c) ==
  c \in {9, 10, 11, 12, 13, 32, 160, 5760, 8232, 8233, 8239, 8287, 12288, 65279}
        \cup (8192..8202)

\* String.prototype.trim
Trim(s) ==
  LET keep == {i \in 1..Len(s) : ~IsWhiteSpace(s[i])}
  IN  IF keep = {} THEN <<>>
      ELSE SubSeq(s, CHOOSE i \in keep : \A j \in keep : i <= j,
                     CHOOSE i \in keep : \A j \in keep : j <= i)

\* truthiness of an optional string: present and not empty
Truthy(opt) == opt # None /\ opt[1] # <<>>

\* mutant: only a missing textRun.T is skipped, an empty one adds its space
RunText_SpaceAlways(textRun) ==
  IF textRun.T = None THEN <<>>
  ELSE decodeURIComponent(textRun.T[1]).value \o <<32>>

\* what one text run adds to text: nothing when textRun.T is missing or
\* empty, otherwise its decoded content and a space
RunText(textRun) ==
  IF ~Truthy(textRun.T) THEN <<>>
  ELSE decodeURIComponent(textRun.T[1]).value \o <<32>>

\* decodeURIComponent(textRun.T) throws
RunThrows(textRun) ==
  Truthy(textRun.T) /\ decodeURIComponent(textRun.T[1]).error # None

RECURSIVE RunsText(_, _)
\* for (const textRun of textItem.R), from run i on
RunsText(R, i) ==
  IF i > Len(R) THEN <<>> ELSE RunText(R[i]) \o RunsText(R, i + 1)

\* mutant: a text item without R adds a separating space
ItemText_Spaced(textItem) ==
  IF textItem.R = None THEN <<32>> ELSE RunsText(textItem.R[1], 1)

\* what one text item adds to text
ItemText(textItem) ==
  IF textItem.R = None THEN <<>> ELSE RunsText(textItem.R[1], 1)

RECURSIVE ItemsText(_, _)
\* for (const textItem of page.Texts), from item i on
ItemsText(Texts, i) ==
  IF i > Len(Texts) THEN <<>> ELSE ItemText(Texts[i]) \o ItemsText(Texts, i + 1)

\* mutant: a page with Texts ends in a blank line
PageText_BlankLine(page) ==
  IF page.Texts = None THEN <<>> ELSE ItemsText(page.Texts[1], 1) \o <<10, 10>>

\* what one page adds to text: its items and a newline, when it has Texts
PageText(page) ==
  IF page.Texts = None THEN <<>> ELSE ItemsText(page.Texts[1], 1) \o <<10>>

RECURSIVE PagesText(_, _)
\* for (const page of pdfData.Pages), from page i on
PagesText(Pages, i) ==
  IF i > Len(Pages) THEN <<>> ELSE PageText(Pages[i]) \o PagesText(Pages, i + 1)

\* some run the loops of extractText reach makes decodeURIComponent throw
SomeRunThrows(pdfData) ==
  /\ pdfData.Pages # None
  /\ \E p \in 1..Len(pdfData.Pages[1]) :
       /\ pdfData.Pages[1][p].Texts # None
       /\ \E t \in 1..Len(pdfData.Pages[1][p].Texts[1]) :
            /\ pdfData.Pages[1][p].Texts[1][t].R # None
            /\ \E r \in 1..Len(pdfData.Pages[1][p].Texts[1][t].R[1]) :
                 RunThrows(pdfData.Pages[1][p].Texts[1][t].R[1][r])

\* mutant: a run that cannot be decoded is left out and the rest returned
extractText_SkipMalformed(pdfData) ==
  [error |-> None,
   value |-> IF pdfData.Pages = None THEN <<>>
             ELSE Trim(PagesText(pdfData.Pages[1], 1))]

\* extractText: [error, value]. The URIError of the first run that cannot
\* be decoded leaves the function, and the text built so far is lost
extractText(pdfData) ==
  IF SomeRunThrows(pdfData) THEN [error |-> Some(URIError), value |-> <<>>]
  ELSE [error |-> None,
        value |-> IF pdfData.Pages = None THEN <<>>
                  ELSE Trim(PagesText(pdfData.Pages[1], 1))]

\* field.id?.Id || "unnamed"
FieldName(field) ==
  IF field.id # None /\ Truthy(field.id[1].Id) THEN field.id[1].Id[1]
  ELSE <<117, 110, 110, 97, 109, 101, 100>>

\* mutant: the type falls back to the name's default
FieldType_Unnamed(field) ==
  IF field.T # None /\ Truthy(field.T[1].Name) THEN field.T[1].Name[1]
  ELSE <<117, 110, 110, 97, 109, 101, 100>>

\* field.T?.Name || "unknown"
FieldType(field) ==
  IF field.T # None /\ Truthy(field.T[1].Name) THEN field.T[1].Name[1]
  ELSE <<117, 110, 107, 110, 111, 119, 110>>

FormFieldInfo(field) ==
  [name |-> FieldName(field), type |-> FieldType(field), value |-> <<>>, options |-> <<>>]

\* the fields one page adds
PageFields(page) ==
  IF page.Fields = None THEN <<>>
  ELSE [k \in 1..Len(page.Fields[1]) |-> FormFieldInfo(page.Fields[1][k])]

RECURSIVE FieldsOfPages(_, _)
\* for (const page of pdfData.Pages), from page i on
FieldsOfPages(Pages, i) ==
  IF i > Len(Pages) THEN <<>> ELSE PageFields(Pages[i]) \o FieldsOfPages(Pages, i + 1)

extractFormFields(pdfData) ==
  IF pdfData.Pages = None THEN <<>>
  ELSE FieldsOfPages(pdfData.Pages[1], 1)

\* String(pdfData.Meta?.X || "")
MetaString(pdfData, key) ==
  IF pdfData.Meta # None /\ Truthy(pdfData.Meta[1][key]) THEN pdfData.Meta[1][key][1]
  ELSE <<>>

\* the result object of format "json"
JsonResult(pdfData, text) ==
  [pages |-> IF pdfData.Pages = None THEN 0 ELSE Len(pdfData.Pages[1]),
   text |-> text,
   metadata |-> [title |-> MetaString(pdfData, "Title"),
                 author |-> MetaString(pdfData, "Author"),
                 subject |-> MetaString(pdfData, "Subject"),
                 creator |-> MetaString(pdfData, "Creator"),
                 producer |-> MetaString(pdfData, "Producer"),
                 creationDate |-> MetaString(pdfData, "CreationDate"),
                 modificationDate |-> MetaString(pdfData, "ModDate")]]

\* the text of a content item: a literal part and an interpolated value.
\* A string result has no literal part; JSON.stringify(v, null, 2) is the
\* value v marked "json"
PlainText(str) == Msg("", str)
JsonText(v) == Msg("json", <<v>>)

\* the switch on format of extract_text: [error, value], value the text of
\* the content item
ShapeText(pdfData, format) ==
  IF format = "detailed" THEN [error |-> None, value |-> JsonText(pdfData)]
  ELSE IF extractText(pdfData).error # None THEN extractText(pdfData)
  ELSE IF format = "json"
    THEN [error |-> None,
          value |-> JsonText(JsonResult(pdfData, extractText(pdfData).value))]
    ELSE [error |-> None, value |-> PlainText(extractText(pdfData).value)]

ShapeFields(pdfData) == [error |-> None, value |-> JsonText(extractFormFields(pdfData))]

-----------------------------------------------------------------------------
(* parsePDF and the CallTool handler *)

\* a thrown or emitted value as the catch clause reads it: instanceof Error,
\* its message, and String(error)
JsError(msg) ==
  [instanceOfError |-> TRUE, message |-> msg,
   string |-> Msg("Error: " \o msg.text, msg.arg)]
NonError(str) ==
  [instanceOfError |-> FALSE, message |-> Msg("", <<>>), string |-> Msg(str, <<>>)]

TimeoutError == JsError(Msg("PDF parsing timeout: file took too long to process", <<>>))

\* what pdfParser_dataError may carry: an Error, or a plain object
EngineErrors == { JsError(Msg("Invalid XRef stream header", <<>>)),
                  NonError("[object Object]") }

\* what pdfParser.loadPDF may throw synchronously
LoadErrors == { JsError(Msg("loadPDF failed", <<>>)) }

\* a text run with content t
Run(t) == [T |-> Some(t)]

\* documents pdfParser_dataReady may deliver: one page with the run "a%20b"
\* and a field "f" without a type; one page whose second run "%" is a
\* malformed escape; a document without Pages
EngineDocs ==
  { [Pages |-> Some(<< [Texts |-> Some(<< [R |-> Some(<< Run(<<97, 37, 50, 48, 98>>) >>)] >>),
                        Fields |-> Some(<< [id |-> Some([Id |-> Some(<<102>>)]), T |-> None] >>)] >>),
     Meta |-> Some([Title |-> Some(<<84>>), Author |-> None, Subject |-> None,
                    Creator |-> None, Producer |-> None, CreationDate |-> None,
                    ModDate |-> None])],
    [Pages |-> Some(<< [Texts |-> Some(<< [R |-> Some(<< Run(<<97>>), Run(<<37>>) >>)] >>),
                        Fields |-> None] >>),
     Meta |-> None],
    [Pages |-> None, Meta |-> None] }

\* the content of a generated text run: empty, or "a%20b"
RunContents == { <<>>, <<97, 37, 50, 48, 98>> }

\* the pages P with one more part after everything they hold: a page with or
\* without Texts, a text item with or without R in the last page, or a text
\* run in the last text item
TextExtensions(P) ==
  LET last == P[Len(P)]
      items == last.Texts[1]
      item == items[Len(items)]
  IN  { Append(P, [Texts |-> t, Fields |-> None]) : t \in {None, Some(<<>>)} }
      \cup (IF P # <<>> /\ last.Texts # None
              THEN { [P EXCEPT ![Len(P)].Texts = Some(Append(items, [R |-> r]))] :
                       r \in {None, Some(<<>>)} }
              ELSE {})
      \cup (IF P # <<>> /\ last.Texts # None /\ items # <<>> /\ item.R # None
              THEN { [P EXCEPT ![Len(P)].Texts =
                        Some([items EXCEPT ![Len(items)].R = Some(Append(item.R[1], Run(t)))])] :
                       t \in RunContents }
              ELSE {})

RECURSIVE TextPages(_)
\* the Pages arrays of exactly n pages, text items and text runs
TextPages(n) ==
  IF n = 0 THEN {<<>>} ELSE UNION { TextExtensions(P) : P \in TextPages(n - 1) }

\* the form fields of generated documents: identifier "f" or "", or no id;
\* type name "alpha" or "", or no T
GeneratedFields ==
  { [id |-> Some([Id |-> Some(<<102>>)]), T |-> Some([Name |-> Some(<<97, 108, 112, 104, 97>>)])],
    [id |-> Some([Id |-> Some(<<102>>)]), T |-> None],
    [id |-> None, T |-> Some([Name |-> Some(<<97, 108, 112, 104, 97>>)])],
    [id |-> Some([Id |-> Some(<<>>)]), T |-> None],
    [id |-> Some([Id |-> Some(<<102>>)]), T |-> Some([Name |-> Some(<<>>)])] }

\* the pages P with one more part: a page with or without Fields, or a form
\* field in the last page
FieldExtensions(P) ==
  LET last == P[Len(P)]
  IN  { Append(P, [Texts |-> None, Fields |-> f]) : f \in {None, Some(<<>>)} }
      \cup (IF P # <<>> /\ last.Fields # None
              THEN { [P EXCEPT ![Len(P)].Fields = Some(Append(last.Fields[1], fld))] :
                       fld \in GeneratedFields }
              ELSE {})

RECURSIVE FieldPages(_)
\* the Pages arrays of exactly n pages and form fields
FieldPages(n) ==
  IF n = 0 THEN {<<>>} ELSE UNION { FieldExtensions(P) : P \in FieldPages(n - 1) }

\* two pages with one text run each, "Hello%20World" and
\* "This%20is%20a%20test"
HelloDoc ==
  [Pages |-> Some(<<
     [Texts |-> Some(<< [R |-> Some(<< Run(<<72, 101, 108, 108, 111, 37, 50, 48,
                                             87, 111, 114, 108, 100>>) >>)] >>),
      Fields |-> None],
     [Texts |-> Some(<< [R |-> Some(<< Run(<<84, 104, 105, 115, 37, 50, 48, 105, 115,
                                             37, 50, 48, 97, 37, 50, 48, 116, 101,
                                             115, 116>>) >>)] >>),
      Fields |-> None] >>),
   Meta |-> None]

\* parsed documents given to extract_text: those of at most max parts, the
\* documents of EngineDocs and HelloDoc
TextDocs(max) ==
  { [Pages |-> Some(P), Meta |-> None] : P \in UNION { TextPages(n) : n \in 0..max } }
  \cup EngineDocs \cup {HelloDoc}

\* parsed documents given to extract_form_fields: those of at most max
\* parts and the documents of EngineDocs
FieldDocs(max) ==
  { [Pages |-> Some(P), Meta |-> None] : P \in UNION { FieldPages(n) : n \in 0..max } }
  \cup EngineDocs

ToolNames == {"extract_text", "extract_form_fields"}
RequestNames == ToolNames \cup {"bogus"}

\* the arguments of a request: none, or a record whose path and format may
\* be missing
RequestArgs ==
  {None} \cup { Some([path |-> p, format |-> f]) :
                  p \in {None} \cup {Some(q) : q \in DispatchPaths},
                  f \in {None, Some("text"), Some("json"), Some("detailed"), Some("xml")} }

\* format = "text" by default
Format == IF args[1].format = None THEN "text" ELSE args[1].format[1]

DestructureError ==
  JsError(Msg("Cannot destructure property 'path' of 'args' as it is undefined.", <<>>))
UnknownToolError(n) == JsError(Msg("Unknown tool: " \o n, <<>>))

\* error instanceof Error ? error.message : String(error)
ErrorMessage(error) == IF error.instanceOfError THEN error.message ELSE error.string

\* mutant: the message is returned without the isError flag
ErrorEnvelope_NoFlag(error) ==
  [content |-> << [type |-> "text",
                   text |-> Msg("Error: " \o ErrorMessage(error).text,
                                ErrorMessage(error).arg)] >>,
   isError |-> None]

\* the envelope built by the catch clause
ErrorEnvelope(error) ==
  [content |-> << [type |-> "text",
                   text |-> Msg("Error: " \o ErrorMessage(error).text,
                                ErrorMessage(error).arg)] >>,
   isError |-> Some(TRUE)]

\* the envelope of a completed operation
SuccessEnvelope(text) ==
  [content |-> << [type |-> "text", text |-> text] >>, isError |-> None]

NoParse == [state |-> "none", doc |-> None, error |-> None]
ParsePending == [state |-> "pending", doc |-> None, error |-> None]
Resolved(pdfData) == [state |-> "resolved", doc |-> Some(pdfData), error |-> None]
Failed(error) == [state |-> "rejected", doc |-> None, error |-> Some(error)]

\* mutant: a later resolve or reject replaces the outcome
Settle_Overwrite(current, new) == new

\* resolve and reject of the promise: only the first call has an effect
Settle(current, new) == IF current.state = "pending" THEN new ELSE current

\* mutant: no timer is set
ArmTimer_Never == "none"

\* setTimeout(..., 30000)
ArmTimer == "armed"

\* mutant: the handlers settle the promise without clearing the timer
ClearTimeout_Forgotten(t) == t

\* clearTimeout(timeout)
ClearTimeout(t) == IF t = "armed" THEN "cleared" ELSE t

\* mutant: the parse is started whatever validatePDFFile reported
ValidationPassed_Always(v) == TRUE

\* await validatePDFFile(filePath) returned without throwing
ValidationPassed(v) == v.status = "fulfilled"

\* the handler is called: the switch on name, the destructuring of args and
\* the call of validatePDFFile
CallTool(n, a) ==
  /\ pc = "idle"
  /\ (a # None /\ a[1].path # None) => Consistent(cwd, a[1].path[1], file)
  /\ name' = n
  /\ args' = a
  /\ IF ~(n \in ToolNames)
       THEN /\ envs' = Append(envs, ErrorEnvelope(UnknownToolError(n)))
            /\ pc' = "done"
            /\ vpc' = vpc
       ELSE IF a = None
         THEN /\ envs' = Append(envs, ErrorEnvelope(DestructureError))
              /\ pc' = "done"
              /\ vpc' = vpc
         ELSE /\ envs' = envs
              /\ pc' = "validating"
              /\ vpc' = "start"
  /\ UNCHANGED <<cwd, file, vres, pendingErr, handle, fsLog, outcome, timer, signals>>

\* validatePDFFile settled: its error goes to the catch clause, otherwise
\* parsePDF creates the promise, sets the timer and calls loadPDF, which may
\* throw at once
AfterValidate ==
  /\ pc = "validating"
  /\ vpc = "done"
  /\ IF ~ValidationPassed(vres)
       THEN /\ envs' = Append(envs, ErrorEnvelope(JsError(vres.error[1])))
            /\ pc' = "done"
            /\ UNCHANGED <<outcome, timer>>
       ELSE /\ \E thrown \in {None} \cup {Some(e) : e \in LoadErrors} :
                 /\ outcome' = IF thrown = None THEN ParsePending
                               ELSE Settle(ParsePending, Failed(thrown[1]))
                 /\ timer' = IF thrown = None THEN ArmTimer ELSE ClearTimeout(ArmTimer)
            /\ pc' = "parsing"
            /\ envs' = envs
  /\ UNCHANGED <<cwd, file, name, args, vpc, vres, pendingErr, handle, fsLog, signals>>

\* the engine emits pdfParser_dataReady
EngineDataReady(pdfData) ==
  /\ outcome.state # "none"
  /\ signals < MaxSignals
  /\ signals' = signals + 1
  /\ timer' = ClearTimeout(timer)
  /\ outcome' = Settle(outcome, Resolved(pdfData))
  /\ UNCHANGED <<cwd, file, name, args, pc, vpc, vres, pendingErr, handle, fsLog, envs>>

\* the engine emits pdfParser_dataError
EngineDataError(error) ==
  /\ outcome.state # "none"
  /\ signals < MaxSignals
  /\ signals' = signals + 1
  /\ timer' = ClearTimeout(timer)
  /\ outcome' = Settle(outcome, Failed(error))
  /\ UNCHANGED <<cwd, file, name, args, pc, vpc, vres, pendingErr, handle, fsLog, envs>>

\* the 30 second timer fires
TimerFire ==
  /\ timer = "armed"
  /\ timer' = "fired"
  /\ outcome' = Settle(outcome, Failed(TimeoutError))
  /\ UNCHANGED <<cwd, file, name, args, pc, vpc, vres, pendingErr, handle, fsLog,
                 signals, envs>>

\* the result of the operation on a parsed document: [error, value]
Shape(n, pdfData, format) ==
  IF n = "extract_text" THEN ShapeText(pdfData, format) ELSE ShapeFields(pdfData)

\* await parsePDF(resolvedPath) settled: the shaping and the return, or the
\* catch clause
AfterParse ==
  /\ pc = "parsing"
  /\ outcome.state \in {"resolved", "rejected"}
  /\ envs' = Append(envs,
       IF outcome.state = "rejected" THEN ErrorEnvelope(outcome.error[1])
       ELSE LET r == Shape(name, outcome.doc[1], Format)
            IN  IF r.error # None THEN ErrorEnvelope(JsError(r.error[1]))
                ELSE SuccessEnvelope(r.value))
  /\ pc' = "done"
  /\ UNCHANGED <<cwd, file, name, args, vpc, vres, pendingErr, handle, fsLog,
                 outcome, timer, signals>>

\* the server is running and no request has arrived
Init ==
  /\ cwd \in Cwds
  /\ file \in Files
  /\ name = ""
  /\ args = None
  /\ pc = "idle"
  /\ vpc = "idle"
  /\ vres = Pending
  /\ pendingErr = <<>>
  /\ handle = "none"
  /\ fsLog = <<>>
  /\ outcome = NoParse
  /\ timer = "none"
  /\ signals = 0
  /\ envs = <<>>

Next ==
  \/ \E n \in RequestNames, a \in RequestArgs : CallTool(n, a)
  \/ Validate
  \/ AfterValidate
  \/ \E d \in EngineDocs : EngineDataReady(d)
  \/ \E e \in EngineErrors : EngineDataError(e)
  \/ TimerFire
  \/ AfterParse

Spec == Init /\ [][Next]_vars

\* the event loop runs a timer that is due and a continuation whose promise
\* has settled; the parsing engine is under no obligation to emit anything
FairSpec ==
  /\ Spec
  /\ WF_vars(TimerFire)
  /\ WF_vars(AfterParse)

\* await parsePDF(resolvedPath) has returned a document, which the handler
\* is about to shape: every generated document, for "a.pdf" in /home/u
InitShape ==
  /\ cwd = <<47, 104, 111, 109, 101, 47, 117>>
  /\ file = [exists |-> TRUE, isFile |-> TRUE, size |-> MAX_FILE_SIZE,
             content |-> PDF_MAGIC_BYTES, io |-> "ok"]
  /\ \/ /\ name = "extract_text"
        /\ args = Some([path |-> Some(<<97, 46, 112, 100, 102>>), format |-> Some("text")])
        /\ outcome \in {Resolved(d) : d \in TextDocs(MaxTextParts)}
     \/ /\ name = "extract_form_fields"
        /\ args = Some([path |-> Some(<<97, 46, 112, 100, 102>>), format |-> None])
        /\ outcome \in {Resolved(d) : d \in FieldDocs(MaxFieldParts)}
  /\ pc = "parsing"
  /\ vpc = "done"
  /\ vres = Fulfilled
  /\ pendingErr = <<>>
  /\ handle = "closed"
  /\ fsLog = <<"access", "statSync", "open", "read", "close">>
  /\ timer = "cleared"
  /\ signals = 1
  /\ envs = <<>>

NextShape == AfterParse

SpecShape == InitShape /\ [][NextShape]_vars

-----------------------------------------------------------------------------
(* Claims about the CallTool handler and parsePDF, under Spec and FairSpec *)

ParseStarted == outcome.state # "none"
ParseDecided == outcome.state \in {"resolved", "rejected"}

\* C1: parsePDF is started only for a known operation whose validatePDFFile
\* call has completed without failure
C1_ParseOnlyAfterValidation ==
  ParseStarted => (name \in ToolNames /\ vpc = "done" /\ vres.status = "fulfilled")

C1_Witness ==
  /\ name = "extract_form_fields"
  /\ outcome.state = "pending"
  /\ vres = Fulfilled
  /\ fsLog = <<"access", "statSync", "open", "read", "close">>

\* the text "Error: " + message of an error envelope
ErrorText(msg) == [text |-> "Error: " \o msg.text, arg |-> msg.arg]

IsErrorEnvelope(e, msg) ==
  /\ e.isError = <<TRUE>>
  /\ e.content[1].text = ErrorText(msg)

\* shaping the parsed document throws: a text run cannot be decoded and the
\* operation decodes the runs
ShapingThrows ==
  /\ outcome.state = "resolved"
  /\ name = "extract_text"
  /\ Format # "detailed"
  /\ SomeRunThrows(outcome.doc[1])

\* the failures of one invocation
UnknownOperation == ~(name \in ToolNames)
MissingArguments == name \in ToolNames /\ args = <<>>
ValidationFailed == vres.status = "rejected"
ParseFailed == outcome.state = "rejected"

\* C3: every failure is returned as an envelope with isError = true and the
\* text "Error: " + message; for an unknown name N the message is
\* "Unknown tool: N"
C3_FailuresAreReturned ==
  pc = "done" =>
    /\ Len(envs) = 1
    /\ UnknownOperation =>
         /\ envs[1].isError = <<TRUE>>
         /\ envs[1].content[1].text = [text |-> "Error: Unknown tool: " \o name, arg |-> <<>>]
    /\ MissingArguments => IsErrorEnvelope(envs[1], DestructureError.message)
    /\ ValidationFailed => IsErrorEnvelope(envs[1], vres.error[1])
    /\ ParseFailed => IsErrorEnvelope(envs[1], ErrorMessage(outcome.error[1]))
    /\ ShapingThrows => IsErrorEnvelope(envs[1], URIError)

C3_Witness ==
  /\ pc = "done"
  /\ name = "bogus"
  /\ envs = << [content |-> << [type |-> "text",
                                text |-> [text |-> "Error: Unknown tool: bogus",
                                          arg |-> <<>>]] >>,
                isError |-> <<TRUE>>] >>

\* number of failures the invocation met
FailureCount ==
  Cardinality({k \in 1..5 :
    CASE k = 1 -> UnknownOperation
      [] k = 2 -> MissingArguments
      [] k = 3 -> ValidationFailed
      [] k = 4 -> ParseFailed
      [] k = 5 -> ShapingThrows})

\* C4: an invocation returns exactly one envelope with exactly one content
\* item; it is a success only after validation, parsing and shaping all
\* completed, and otherwise an error with exactly one failure reason; a
\* shaping that throws part-way returns no partial result
C4_OneEnvelopeNoPartialResult ==
  /\ Len(envs) = (IF pc = "done" THEN 1 ELSE 0)
  /\ pc = "done" =>
       /\ Len(envs[1].content) = 1
       /\ envs[1].content[1].type = "text"
       /\ IF envs[1].isError = <<>>
            THEN /\ vres.status = "fulfilled"
                 /\ outcome.state = "resolved"
                 /\ FailureCount = 0
            ELSE /\ FailureCount = 1
                 /\ envs[1].isError = <<TRUE>>

\* a document whose second run is malformed was shaped as json
C4_Witness ==
  /\ pc = "done"
  /\ ShapingThrows
  /\ Format = "json"
  /\ envs[1].isError = <<TRUE>>
  /\ envs[1].content[1].text = [text |-> "Error: URI malformed", arg |-> <<>>]

\* C5: the first of engine success, engine error and timer decides the
\* outcome of parsePDF; a decided outcome never changes, and nothing that
\* happens after the handler returned changes what it returned
C5_FirstEventWins ==
  [][ /\ ParseDecided => outcome' = outcome
      /\ (outcome.state = "pending" /\ timer = "armed" /\ timer' = "fired")
           => outcome' = Failed(TimeoutError)
      /\ (outcome.state = "pending" /\ signals' = signals + 1)
           => /\ outcome'.state \in {"resolved", "rejected"}
              /\ outcome'.error # <<TimeoutError>>
              /\ timer' = "cleared"
      /\ pc = "done" => (envs' = envs /\ pc' = "done") ]_vars

\* the engine signalled after the timer had fired and the handler returned
C5_Witness ==
  /\ timer = "fired"
  /\ signals = MaxSignals
  /\ outcome = Failed(TimeoutError)
  /\ pc = "done"
  /\ envs = <<ErrorEnvelope(TimeoutError)>>

\* C6: a pending parse is decided; as long as the engine has not signalled
\* it is decided by the timer, with the timeout failure; and the handler
\* that reached parsing returns its envelope
C6_TimeoutEndsParse ==
  /\ (outcome.state = "pending")
       ~> (signals > 0 \/ outcome = Failed(TimeoutError))
  /\ (pc = "parsing") ~> (pc = "done" /\ Len(envs) = 1)

\* the engine never signalled and the handler returned the timeout
C6_Witness ==
  /\ signals = 0
  /\ timer = "fired"
  /\ pc = "done"
  /\ envs[1].content[1].text =
       [text |-> "Error: PDF parsing timeout: file took too long to process",
        arg |-> <<>>]

\* C16: whenever the outcome of parsePDF is decided, by the engine's
\* success or error or by loadPDF throwing, the timer has been cleared; it is
\* armed only while the parse is pending, and has fired only if the outcome
\* is the timeout failure, so it never fires after a decided parse
C16_TimerClearedWhenDecided ==
  /\ ParseDecided => timer \in {"cleared", "fired"}
  /\ timer = "armed" => outcome = ParsePending
  /\ timer = "fired" => outcome = Failed(TimeoutError)

\* the engine delivered a document and a later signal; the timer stayed cleared
C16_Witness ==
  /\ outcome.state = "resolved"
  /\ signals = 2
  /\ timer = "cleared"

-----------------------------------------------------------------------------
(* Claims about result shaping, under SpecShape *)

\* the document the handler has shaped
ShapedDoc == outcome.doc[1]

\* the handler has answered an extract_text request of format "text"
TextShaped ==
  /\ pc = "done"
  /\ name = "extract_text"
  /\ outcome.state = "resolved"
  /\ Format = "text"

\* the handler has answered an extract_form_fields request
FieldsShaped ==
  /\ pc = "done"
  /\ name = "extract_form_fields"
  /\ outcome.state = "resolved"

RECURSIVE ConcatFrom(_, _)
ConcatFrom(seqs, i) ==
  IF i > Len(seqs) THEN <<>> ELSE seqs[i] \o ConcatFrom(seqs, i + 1)

\* the members of a sequence of sequences, one after the other
Concat(seqs) == ConcatFrom(seqs, 1)

\* the text runs of an item, the items of a page, the pages of a document
RunsOfItem(textItem) == IF textItem.R = None THEN <<>> ELSE textItem.R[1]
ItemsOfPage(page) == IF page.Texts = None THEN <<>> ELSE page.Texts[1]
PagesOf(doc) == IF doc.Pages = None THEN <<>> ELSE doc.Pages[1]

\* every text run of the document, in document order
RunsOfPage(page) ==
  Concat([t \in 1..Len(ItemsOfPage(page)) |-> RunsOfItem(ItemsOfPage(page)[t])])
RunsOf(doc) ==
  Concat([p \in 1..Len(PagesOf(doc)) |-> RunsOfPage(PagesOf(doc)[p])])

\* every run content is a well-formed percent-encoding
Decodable(doc) ==
  \A i \in 1..Len(RunsOf(doc)) :
    RunsOf(doc)[i].T # None => decodeURIComponent(RunsOf(doc)[i].T[1]).error = None

\* the reference piece of a run: its decoded content and one space; a run
\* with empty content gives the space alone if emptyAddsSpace, else nothing
ReferenceRun(run, emptyAddsSpace) ==
  IF run.T = None THEN <<>>
  ELSE IF run.T[1] = <<>> THEN (IF emptyAddsSpace THEN <<32>> ELSE <<>>)
  ELSE decodeURIComponent(run.T[1]).value \o <<32>>

\* the reference block of a page: the pieces of its runs in order, then one
\* newline; nothing for a page without a Texts list
ReferencePage(page, emptyAddsSpace) ==
  IF page.Texts = None THEN <<>>
  ELSE Concat([r \in 1..Len(RunsOfPage(page)) |->
                 ReferenceRun(RunsOfPage(page)[r], emptyAddsSpace)]) \o <<10>>

\* the reference concatenation, trimmed
ReferenceText(doc, emptyAddsSpace) ==
  Trim(Concat([p \in 1..Len(PagesOf(doc)) |->
                 ReferencePage(PagesOf(doc)[p], emptyAddsSpace)]))

\* C12 as claimed: the text output is the reference concatenation in which
\* every run, also one with empty content, is followed by one space
C12_EveryRunAddsSpace ==
  (TextShaped /\ Decodable(ShapedDoc))
    => envs = <<SuccessEnvelope(PlainText(ReferenceText(ShapedDoc, TRUE)))>>

\* C12: the text output is the reference concatenation in document order,
\* in which a run with content is followed by one space and a run with
\* missing or empty content adds nothing, each page with a Texts list ends in
\* one newline, and the whole is trimmed; a document with a malformed run
\* content gives "URI malformed" instead
C12_TextIsReference ==
  TextShaped
    => IF Decodable(ShapedDoc)
         THEN envs = <<SuccessEnvelope(PlainText(ReferenceText(ShapedDoc, FALSE)))>>
         ELSE envs = <<ErrorEnvelope(JsError(URIError))>>

\* the runs "a%20b", "", "a%20b" of one text item were shaped to "a b a b"
C12_Witness ==
  /\ TextShaped
  /\ PagesOf(ShapedDoc) =
       << [Texts |-> Some(<< [R |-> Some(<< Run(<<97, 37, 50, 48, 98>>), Run(<<>>),
                                             Run(<<97, 37, 50, 48, 98>>) >>)] >>),
           Fields |-> None] >>
  /\ envs = <<SuccessEnvelope(PlainText(<<97, 32, 98, 32, 97, 32, 98>>))>>

\* "Hello World ", "This is a test "
HelloWorldSp ==
  <<72, 101, 108, 108, 111, 32, 87, 111, 114, 108, 100, 32>>
ThisIsATestSp ==
  <<84, 104, 105, 115, 32, 105, 115, 32, 97, 32, 116, 101, 115, 116, 32>>

\* C13 as claimed: the two pages of HelloDoc are shaped to
\* "Hello World \n\nThis is a test \n" before trimming and to
\* "Hello World \n\nThis is a test" after it
C13_TwoNewlines ==
  (TextShaped /\ ShapedDoc = HelloDoc)
    => /\ PagesText(PagesOf(ShapedDoc), 1)
            = HelloWorldSp \o <<10, 10>> \o ThisIsATestSp \o <<10>>
       /\ envs = <<SuccessEnvelope(PlainText(
                     HelloWorldSp \o <<10, 10>>
                       \o SubSeq(ThisIsATestSp, 1, Len(ThisIsATestSp) - 1)))>>

\* C13: the two pages of HelloDoc are shaped to
\* "Hello World \nThis is a test \n" before trimming and to
\* "Hello World \nThis is a test" after it: one space after each run, one
\* newline after each page
C13_OneNewline ==
  (TextShaped /\ ShapedDoc = HelloDoc)
    => /\ PagesText(PagesOf(ShapedDoc), 1)
            = HelloWorldSp \o <<10>> \o ThisIsATestSp \o <<10>>
       /\ envs = <<SuccessEnvelope(PlainText(
                     HelloWorldSp \o <<10>>
                       \o SubSeq(ThisIsATestSp, 1, Len(ThisIsATestSp) - 1)))>>

\* HelloDoc was shaped and its text returned
C13_Witness ==
  /\ TextShaped
  /\ ShapedDoc = HelloDoc
  /\ Len(envs) = 1
  /\ envs[1].isError = None

\* every form field of the document, in document order
FieldsOfPage(page) == IF page.Fields = None THEN <<>> ELSE page.Fields[1]
FieldsOf(doc) ==
  Concat([p \in 1..Len(PagesOf(doc)) |-> FieldsOfPage(PagesOf(doc)[p])])

\* the list the handler returned
ReturnedFields == envs[1].content[1].text.arg[1]

\* "unnamed", "unknown"
Unnamed == <<117, 110, 110, 97, 109, 101, 100>>
Unknown == <<117, 110, 107, 110, 111, 119, 110>>

\* the field carries an identifier, a type name; an empty string counts as
\* none
HasIdentifier(field) ==
  field.id # None /\ field.id[1].Id # None /\ field.id[1].Id[1] # <<>>
HasTypeName(field) ==
  field.T # None /\ field.T[1].Name # None /\ field.T[1].Name[1] # <<>>

RemoveAt(seq, i) == SubSeq(seq, 1, i - 1) \o SubSeq(seq, i + 1, Len(seq))

\* the document without its page p, without item t of its page p
WithoutPage(doc, p) == [doc EXCEPT !.Pages = Some(RemoveAt(PagesOf(doc), p))]
WithoutItem(doc, p, t) ==
  [doc EXCEPT !.Pages =
     Some([PagesOf(doc) EXCEPT ![p].Texts = Some(RemoveAt(ItemsOfPage(PagesOf(doc)[p]), t))])]

\* the text the handler returned
ReturnedText == envs[1].content[1].text

\* the text the handler would return for doc
TextFor(doc) == PlainText(extractText(doc).value)

\* every text item without text runs can be removed and the returned text
\* stays the same
ItemsWithoutRunsAddNothing ==
  \A p \in 1..Len(PagesOf(ShapedDoc)) :
    \A t \in 1..Len(ItemsOfPage(PagesOf(ShapedDoc)[p])) :
      RunsOfItem(ItemsOfPage(PagesOf(ShapedDoc)[p])[t]) = <<>>
        => TextFor(WithoutItem(ShapedDoc, p, t)) = ReturnedText

\* C17 as claimed: every page and every text item without text runs can be
\* removed and the returned text stays the same
C17_EmptyPagesAddNothing ==
  (TextShaped /\ Decodable(ShapedDoc))
    => /\ ItemsWithoutRunsAddNothing
       /\ \A p \in 1..Len(PagesOf(ShapedDoc)) :
            RunsOfPage(PagesOf(ShapedDoc)[p]) = <<>>
              => TextFor(WithoutPage(ShapedDoc, p)) = ReturnedText

\* C17: a text item without text runs, and a page without a Texts list, can
\* be removed and the returned text stays the same; a page that has a Texts
\* list but no text runs adds one newline, at its place, to the text before
\* trimming, and everything else keeps its order
C17_EmptyPageAddsNewline ==
  (TextShaped /\ Decodable(ShapedDoc))
    => /\ ItemsWithoutRunsAddNothing
       /\ \A p \in 1..Len(PagesOf(ShapedDoc)) :
            RunsOfPage(PagesOf(ShapedDoc)[p]) = <<>>
              => IF PagesOf(ShapedDoc)[p].Texts = None
                   THEN TextFor(WithoutPage(ShapedDoc, p)) = ReturnedText
                   ELSE LET before == PagesText(SubSeq(PagesOf(ShapedDoc), 1, p - 1), 1)
                            without == PagesText(RemoveAt(PagesOf(ShapedDoc), p), 1)
                        IN  /\ PagesText(PagesOf(ShapedDoc), 1)
                                 = SubSeq(without, 1, Len(before)) \o <<10>>
                                     \o SubSeq(without, Len(before) + 1, Len(without))
                            /\ ReturnedText = PlainText(Trim(PagesText(PagesOf(ShapedDoc), 1)))

\* a page with an empty Texts list between two pages holding the run
\* "a%20b" was shaped to "a b \n\na b"
C17_Witness ==
  /\ TextShaped
  /\ PagesOf(ShapedDoc) =
       << [Texts |-> Some(<< [R |-> Some(<< Run(<<97, 37, 50, 48, 98>>) >>)] >>),
           Fields |-> None],
          [Texts |-> Some(<<>>), Fields |-> None],
          [Texts |-> Some(<< [R |-> Some(<< Run(<<97, 37, 50, 48, 98>>) >>)] >>),
           Fields |-> None] >>
  /\ ReturnedText = PlainText(<<97, 32, 98, 32, 10, 10, 97, 32, 98>>)

====
